---------------------------- MODULE Spec2Model ----------------------------
(***************************************************************************)
(* A model of DragonResist-EUV's EUVExposureModel (models/euv_exposure.py):*)
(* one model instance, the process-global random generator it draws from,  *)
(* and the calls a host program makes on the instance.                     *)
(*                                                                         *)
(* Floating-point quantities are fixed-point integers:                     *)
(*   dose                 tenths of mJ/cm2        (300  = 30.0)            *)
(*   photons per nm2      thousandths             (20354 = 20.354)         *)
(*   target CD            tenths of nm            (10   = 1.0 nm)          *)
(*   map values, rates, thickness, LER, CD error  thousandths              *)
(*   resist parameters    see DefaultResist                                *)
(* A numpy array is a sequence of rows, each a sequence of values.         *)
(* NaN is a value of its own; comparisons with it are false.               *)
(***************************************************************************)
EXTENDS Integers, Sequences, FiniteSets, TLC

VARIABLES
    tool,       \* self.tool: the dose and the cached photons-per-area
    resist,     \* self.resist
    metrics,    \* self.metrics, the dict every run updates in place
    rng,        \* the state of Python's process-global random generator
    pc,         \* "idle", or "sweep" inside calculate_process_window's loop
    sw,         \* the locals of a calculate_process_window call in progress
    ret,        \* what the latest call on the instance returned, with its inputs
    prev,       \* what the call before it returned
    ops         \* calls made so far

vars == <<tool, resist, metrics, rng, pc, sw, ret, prev, ops>>

-----------------------------------------------------------------------------
(* Bounds of the model *)

\* Calls the host makes on one instance.
MaxOps == 2

\* The scaled-down grid calculate_process_window builds (the code's is
\* 1000 x 1000, line 375).
SweepH == 1
SweepW == 4

-----------------------------------------------------------------------------
(* Floating point *)

NaN == -(2^30)

IsNaN(x) == x = NaN

\* an ordinary number: a float that is not NaN
IsNumber(x) == x \in Int /\ ~IsNaN(x)

\* what every value above the fixed-point range is held as
Huge == 2^30

\* a < b on floats: false when either is NaN.
FLt(a, b) == ~IsNaN(a) /\ ~IsNaN(b) /\ a < b

Abs(x) == IF x < 0 THEN -x ELSE x

\* np.abs
FAbs(x) == IF IsNaN(x) THEN NaN ELSE Abs(x)

\* int(x) of a float given in units of 1/unit: truncation toward zero.
TruncDiv(x, unit) == IF x >= 0 THEN x \div unit ELSE -((-x) \div unit)

RECURSIVE SqrtSearch(_, _, _)
SqrtSearch(n, lo, hi) ==
    IF lo >= hi THEN lo
    ELSE LET mid == (lo + hi + 1) \div 2
         IN  IF mid * mid <= n THEN SqrtSearch(n, mid, hi)
                               ELSE SqrtSearch(n, lo, mid - 1)

\* floor(sqrt(n)) for 0 <= n < 2^30
ISqrt(n) == SqrtSearch(n, 0, 32767)

\* np.sqrt of a value in thousandths: NaN (and a warning) below zero.
FSqrtMilli(x) == IF IsNaN(x) \/ x < 0 THEN NaN ELSE ISqrt(x * 1000)

\* a / b on numpy floats, both in thousandths: 0/0 is NaN (a RuntimeWarning,
\* no exception).  The model never divides a non-zero value by zero.
FDivMilli(a, b) ==
    IF IsNaN(a) \/ IsNaN(b) \/ b = 0 THEN NaN ELSE (a * 1000) \div b

-----------------------------------------------------------------------------
(* Arrays *)

\* A sequence given by a rule, built once: TLC keeps [i \in 1..n |-> e] as the
\* rule and evaluates e again at every application; concatenation stores it.
Arr(s) == s \o <<>>

\* s[lo] + ... + s[hi], by halves
RECURSIVE SumRange(_, _, _)
SumRange(s, lo, hi) ==
    IF lo > hi THEN 0
    ELSE IF lo = hi THEN s[lo]
    ELSE LET mid == (lo + hi) \div 2
         IN  SumRange(s, lo, mid) + SumRange(s, mid + 1, hi)

SumSeq(s) == SumRange(s, 1, Len(s))

Height(m) == Len(m)
Width(m) == Len(m[1])
Size(m) == Height(m) * Width(m)

\* np.sum of a two-dimensional array
SumMap(m) == SumSeq(Arr([y \in 1..Height(m) |-> SumSeq(m[y])]))

\* the h x w array whose cell (y, x) is Cell(y, x)
Grid(h, w, Cell(_, _)) == Arr([y \in 1..h |-> Arr([x \in 1..w |-> Cell(y, x)])])

ConstMap(h, w, v) == Grid(h, w, LAMBDA y, x : v)

\* the array of F applied to every cell of m
MapCells(m, F(_)) == Grid(Height(m), Width(m), LAMBDA y, x : F(m[y][x]))

\* how many cells of m hold v
Count(m, v) ==
    Cardinality({c \in (1..Height(m)) \X (1..Width(m)) : m[c[1]][c[2]] = v})

-----------------------------------------------------------------------------
(* Configuration: __init__ *)

\* self.constants
EvPerPhoton == 92
NmPerPixelTenths == 5

\* 1.602e-19 J per eV, as 1602e-22
JoulePerEvE22 == 1602

\* The literal the default tool record carries under 'photons_per_nm2':
\* 2.45e15, above the fixed-point range and held as Huge.
DefaultPhotonsCache == Huge

DefaultDose == 300

DefaultTool ==
    [dose_mJ_cm2 |-> DefaultDose, photons_per_nm2 |-> DefaultPhotonsCache]

\* The default resist record.  absorption, yield, quenching and rate constant
\* in hundredths; lengths in hundredths of nm; base rate in thousandths of
\* nm/s; contrast in tenths.
DefaultResist ==
    [type |-> "CAR",
     absorption_coefficient |-> 78,
     secondary_electron_yield |-> 320,
     electron_scattering_range_nm |-> 480,
     chemical_amplification_factor |-> 500,
     acid_diffusion_length_nm |-> 520,
     quenching_factor |-> 15,
     reaction_rate_constant |-> 85,
     development_rate_base_nm_s |-> 500,
     development_contrast |-> 45]

\* Resist records a caller passes as resist_parameters: a low-yield,
\* short-range, fast-developing CAR; the same as a metal-oxide resist; and the
\* default record with a chemistry kind the code does not know.
SparseResist ==
    [DefaultResist EXCEPT !.secondary_electron_yield = 20,
                          !.electron_scattering_range_nm = 50,
                          !.acid_diffusion_length_nm = 5,
                          !.development_rate_base_nm_s = 2000]

MeOxResist == [SparseResist EXCEPT !.type = "MeOx"]

UnknownResist == [DefaultResist EXCEPT !.type = "PMMA"]

ResistConfigs == {DefaultResist, SparseResist, MeOxResist, UnknownResist}

\* self.metrics as __init__ leaves it
InitialMetrics ==
    [effective_dose_mJ_cm2 |-> 0, ler_nm |-> 0, lwr_nm |-> 0,
     cd_error_nm |-> 0, stochastic_defects_per_um2 |-> 0,
     process_window_size |-> 0]

\* dict.update
DictUpdate(d, new) ==
    [k \in DOMAIN d \cup DOMAIN new |-> IF k \in DOMAIN new THEN new[k] ELSE d[k]]

-----------------------------------------------------------------------------
(* The process-global generator of Python's random module *)

\* The generator is a deterministic stream fixed by its seed.  A state is the
\* seed and the draws consumed.
\* Standard-normal draws of the stream, in hundredths.
ZTable == <<0, 120, 3, -70, 70, 15, -130, 8, 250, -25, -4>>

\* the model's stream repeats after its table
Period == Len(ZTable)

\* where in the cycle the stream of a seed starts
SeedStart(seed) == (seed * 4) % Period

\* random.gauss(0, sigma): sigma in tenths of a cell, the draw in thousandths.
Gauss(r, sigma) == ZTable[((SeedStart(r.seed) + r.n) % Period) + 1] * sigma

\* the generator after k more draws
AdvanceBy(r, k) == [r EXCEPT !.n = (@ + k) % Period]

\* random.seed(s)
Seeded(s) == [seed |-> s, n |-> 0, explicit |-> TRUE]

-----------------------------------------------------------------------------
(* calculate_photon_statistics *)

\* photons per nm2 in thousandths, from the dose in tenths of mJ/cm2:
\* dose * 1e-3 / (eV_per_photon * 1.602e-19) * 1e-14
PhotonsPerNm2(dose) ==
    (dose * 1250000) \div ((EvPerPhoton * JoulePerEvE22) \div 8)

\* The returned dict for an area given in quarters of a nm2 (the area of one
\* grid cell): total photons and shot noise in thousandths.
PhotonStats(dose, areaQ) ==
    LET ppn   == PhotonsPerNm2(dose)
        total == (ppn * areaQ) \div 4
        noise == FSqrtMilli(total)
    IN  [total_photons |-> total,
         shot_noise |-> noise,
         relative_shot_noise |-> FDivMilli(noise, total),
         photons_per_nm2 |-> ppn]

\* line 100: the cache refresh
RefreshCache(t, ppn) == [t EXCEPT !.photons_per_nm2 = ppn]

-----------------------------------------------------------------------------
(* scipy.ndimage.gaussian_filter, mode 'reflect', truncate 4.0 *)

\* The kernel radius int(4 * sigma + 0.5), sigma in hundredths of a cell.
KernelRadius(sigma) == (4 * sigma + 50) \div 100

MeanMap(m) == ConstMap(Height(m), Width(m), SumMap(m) \div Size(m))

\* Two regimes are modelled.  Radius 0: the kernel is the single weight 1 and
\* the array comes back unchanged.  Sigma at least the grid's extent (every
\* grid of the model against the 30-cell optical blur and the default
\* 10.4-cell diffusion): the reflected array is periodic with a period far
\* below sigma, the kernel removes everything but its mean, and every cell
\* holds the mean (to within 1e-3 of it).
GaussianFilter(m, sigma) == IF KernelRadius(sigma) = 0 THEN m ELSE MeanMap(m)

-----------------------------------------------------------------------------
(* simulate_electron_cascade *)

\* int() of a drawn displacement (thousandths of a cell)
CellOffset(v) == TruncDiv(v, 1000)

\* int(photon_value * yield): photon value in thousandths, yield in hundredths
NumElectrons(p, yield) == TruncDiv(p * yield, 100000)

\* electron_scattering_range_nm / nm_per_pixel, in tenths of a cell
ScatterSigma(res) == res.electron_scattering_range_nm \div NmPerPixelTenths

\* lines 132-135: the electrons each cell emits, the cells in row-major
\* order (the order of the two loops)
Emitted(photon_map, res) ==
    Arr([idx \in 1..Size(photon_map) |->
        LET p == photon_map[((idx - 1) \div Width(photon_map)) + 1]
                           [((idx - 1) % Width(photon_map)) + 1]
        IN  IF p > 0 THEN NumElectrons(p, res.secondary_electron_yield) ELSE 0])

\* the electrons emitted up to and including each cell
RunningTotal(emitted) ==
    Arr([idx \in 1..Len(emitted) |-> SumRange(emitted, 1, idx)])

\* The cell that emits the e-th electron of the call: the loops emit all of
\* a cell's electrons before the next cell's.
SourceCell(upto, e) ==
    CHOOSE idx \in 1..Len(upto) :
        /\ (IF idx = 1 THEN 0 ELSE upto[idx - 1]) < e
        /\ e <= upto[idx]

\* lines 141-145: the cell <<nx, ny>> the e-th electron lands on.  It takes
\* the draws 2e - 1 (dx) and 2e (dy) of the call from the generator.
Landing(photon_map, upto, e, sigma, r) ==
    LET idx == SourceCell(upto, e)
        x   == ((idx - 1) % Width(photon_map)) + 1
        y   == ((idx - 1) \div Width(photon_map)) + 1
        dx  == CellOffset(Gauss(AdvanceBy(r, 2 * e - 2), sigma))
        dy  == CellOffset(Gauss(AdvanceBy(r, 2 * e - 1), sigma))
    IN  <<x + dx, y + dy>>

\* The electron map (whole counts) and the generator after the draws.
SimulateElectronCascade(photon_map, res, r) ==
    LET emitted  == Emitted(photon_map, res)
        upto     == RunningTotal(emitted)
        total    == SumSeq(emitted)
        landings == Arr([e \in 1..total |->
                        Landing(photon_map, upto, e, ScatterSigma(res), r)])
    IN  [map |-> Grid(Height(photon_map), Width(photon_map),
                      LAMBDA y, x :
                         Cardinality({e \in 1..total : landings[e] = <<x, y>>})),
         rng |-> AdvanceBy(r, 2 * total)]

-----------------------------------------------------------------------------
(* simulate_chemical_reactions *)

\* the fixed 0.85 of the MeOx branch, in hundredths
MeOxFactor == 85

\* acid concentration of one cell in thousandths, from its electron count
CarAcid(e, res) ==
    IF e > 0
    THEN (e * res.chemical_amplification_factor
            * (100 - res.quenching_factor) * res.reaction_rate_constant) \div 10
    ELSE 0

MeOxAcid(e) == IF e > 0 THEN e * MeOxFactor * 10 ELSE 0

\* The returned acid map.  Any other chemistry kind falls through both
\* branches and the zero map of line 162 is returned.
SimulateChemicalReactions(electron_map, res) ==
    MapCells(electron_map,
             LAMBDA e : IF res.type = "CAR" THEN CarAcid(e, res)
                        ELSE IF res.type = "MeOx" THEN MeOxAcid(e)
                        ELSE 0)

-----------------------------------------------------------------------------
(* simulate_acid_diffusion *)

\* acid_diffusion_length_nm / nm_per_pixel, in hundredths of a cell
DiffusionSigma(res) == (res.acid_diffusion_length_nm * 10) \div NmPerPixelTenths

SimulateAcidDiffusion(acid_map, res) ==
    GaussianFilter(acid_map, DiffusionSigma(res))

-----------------------------------------------------------------------------
(* calculate_development_rate *)

\* 1000 / (1 + exp(-z)) at z = -8, -7, ..., 8
LogisticKnots ==
    <<0, 1, 2, 7, 18, 47, 119, 269, 500, 731, 881, 953, 982, 993, 998, 999, 1000>>

\* 1 / (1 + exp(-z)) in thousandths, z in thousandths: linear between the
\* knots, 0 below -8 and 1 above 8.
Logistic(z) ==
    IF z <= -8000 THEN 0
    ELSE IF z >= 8000 THEN 1000
    ELSE LET k == (z + 8000) \div 1000
             f == (z + 8000) % 1000
         IN  LogisticKnots[k + 1]
               + ((LogisticKnots[k + 2] - LogisticKnots[k + 1]) * f) \div 1000

\* contrast * (c - 0.5) in thousandths, saturated where the logistic is flat
Steepness(c, res) ==
    IF c > 10000 THEN 8000 ELSE (res.development_contrast * (c - 500)) \div 10

CalculateDevelopmentRate(acid_map, res) ==
    MapCells(acid_map,
             LAMBDA c : (res.development_rate_base_nm_s
                           * Logistic(Steepness(c, res))) \div 1000)

-----------------------------------------------------------------------------
(* simulate_development *)

\* resist_thickness_nm = 40.0, in thousandths
ResistThickness == 40000

\* residual thickness of a cell after t seconds
Residual(rate, t) == ResistThickness - rate * t

\* the two values of np.where exchanged
RemainsExchanged(rate, t) == IF Residual(rate, t) > 0 THEN 0 ELSE 1

\* np.where(resist_profile > 0, 1.0, 0.0)
Remains(rate, t) == IF Residual(rate, t) > 0 THEN 1 ELSE 0

SimulateDevelopment(rate_map, t) ==
    MapCells(rate_map, LAMBDA rate : Remains(rate, t))

-----------------------------------------------------------------------------
(* calculate_stochastic_metrics *)

\* np.where(np.diff(pattern_map, axis=1) == 1)[1]: the (0-based) columns of
\* the low-to-high steps, rows first; those of the lo-th to hi-th step cell,
\* by halves.
RECURSIVE EdgesFrom(_, _, _)
EdgesFrom(p, lo, hi) ==
    LET w == Width(p) - 1
    IN  IF lo > hi THEN <<>>
        ELSE IF lo = hi
        THEN LET y == ((lo - 1) \div w) + 1
                 x == ((lo - 1) % w) + 1
             IN  IF p[y][x + 1] - p[y][x] = 1 THEN <<x - 1>> ELSE <<>>
        ELSE LET mid == (lo + hi) \div 2
             IN  EdgesFrom(p, lo, mid) \o EdgesFrom(p, mid + 1, hi)

EdgePositions(p) == EdgesFrom(p, 1, Height(p) * (Width(p) - 1))

\* np.diff of a one-dimensional array
Diffs(s) ==
    Arr([i \in 1..(IF Len(s) > 0 THEN Len(s) - 1 ELSE 0) |-> s[i + 1] - s[i]])

\* np.mean, in thousandths: NaN (and a warning) for an empty array
Mean(s) == IF Len(s) = 0 THEN NaN ELSE (SumSeq(s) * 1000) \div Len(s)

\* np.std, in thousandths
Std(s) ==
    LET n  == Len(s)
        s1 == SumSeq(s)
        s2 == SumSeq([i \in 1..n |-> s[i] * s[i]])
    IN  ISqrt((n * s2 - s1 * s1) * 1000000) \div n

\* lines 268-271
Ler(edge_positions) ==
    IF Len(edge_positions) > 1
    THEN (Std(edge_positions) * NmPerPixelTenths) \div 10
    ELSE 0

\* lines 274-275; target_cd in tenths of nm
CdError(edge_positions, target_cd) ==
    LET mean == Mean(Diffs(edge_positions))
    IN  IF IsNaN(mean) THEN NaN
        ELSE (mean * NmPerPixelTenths) \div 10 - target_cd * 100

\* np.sum(pattern_map[y-1:y+2, x-1:x+2])
Neighbourhood(p, y, x) ==
    SumSeq([i \in 1..9 |-> p[y - 1 + ((i - 1) \div 3)][x - 1 + ((i - 1) % 3)]])

\* lines 279-287
Defects(p) ==
    Cardinality({c \in (2..(Height(p) - 1)) \X (2..(Width(p) - 1)) :
        \/ p[c[1]][c[2]] = 1 /\ Neighbourhood(p, c[1], c[2]) <= 2
        \/ p[c[1]][c[2]] = 0 /\ Neighbourhood(p, c[1], c[2]) >= 8})

\* line 289: defects per um2 (whole numbers)
DefectDensity(p) ==
    (Defects(p) * 4000000) \div Size(p)

CalculateStochasticMetrics(pattern_map, target_cd) ==
    LET edges == EdgePositions(pattern_map)
        dd    == DefectDensity(pattern_map)
    IN  [ler_nm |-> Ler(edges),
         cd_error_nm |-> CdError(edges, target_cd),
         stochastic_defects_per_um2 |-> dd,
         pattern_fidelity |-> 1000 - dd * 10]

-----------------------------------------------------------------------------
(* run_full_simulation *)

\* 15.0 / nm_per_pixel, in hundredths of a cell
PsfSigma == 15000 \div NmPerPixelTenths

\* np.sum(target_pattern) * nm_per_pixel**2 * 1e-6 um2, in quarters of a nm2
TargetArea(target_pattern) == SumMap(target_pattern)

\* line 316; the aerial image in thousandths
AerialImage(target_pattern) ==
    GaussianFilter(MapCells(target_pattern, LAMBDA v : 1000 * v), PsfSigma)

\* line 319
PhotonMap(aerial_image, res, ppn) ==
    MapCells(aerial_image,
             LAMBDA a : (((a * res.absorption_coefficient) \div 100) * ppn)
                           \div 1000)

\* lines 340-341
UpdateMetrics(m, new, dose) ==
    [DictUpdate(m, new) EXCEPT !.effective_dose_mJ_cm2 = dose]

\* results['metrics'] read from a returned record when self.metrics is m: the
\* entry is the instance's dict, so the read gives the dict's present content
ReadMetrics(result, m) ==
    IF result.metrics = "self.metrics" THEN m ELSE result.metrics

\* One call on an instance in state (t, res, m, r): the instance's and the
\* generator's state after it, and the returned record.  The record's
\* 'metrics' entry is self.metrics itself, not a copy.
RunFullSimulation(t, res, m, r, target_pattern, target_cd, development_time) ==
    LET photon_stats  == PhotonStats(t.dose_mJ_cm2, TargetArea(target_pattern))
        t2            == RefreshCache(t, photon_stats.photons_per_nm2)
        aerial_image  == AerialImage(target_pattern)
        photon_map    == PhotonMap(aerial_image, res, photon_stats.photons_per_nm2)
        cascade       == SimulateElectronCascade(photon_map, res, r)
        electron_map  == cascade.map
        acid_map      == SimulateChemicalReactions(electron_map, res)
        diffused_acid == SimulateAcidDiffusion(acid_map, res)
        rate_map      == CalculateDevelopmentRate(diffused_acid, res)
        final_pattern == SimulateDevelopment(rate_map, development_time)
        new           == CalculateStochasticMetrics(final_pattern, target_cd)
        m2            == UpdateMetrics(m, new, t2.dose_mJ_cm2)
    IN  [tool |-> t2, rng |-> cascade.rng, metrics |-> m2,
         result |-> [photon_stats |-> photon_stats,
                     aerial_image |-> aerial_image,
                     photon_map |-> photon_map,
                     electron_map |-> electron_map,
                     acid_map |-> acid_map,
                     diffused_acid |-> diffused_acid,
                     rate_map |-> rate_map,
                     final_pattern |-> final_pattern,
                     metrics |-> "self.metrics"]]

-----------------------------------------------------------------------------
(* calculate_process_window *)

\* np.linspace(range[1], range[2], steps)
Linspace(range, steps) ==
    Arr([i \in 1..steps |->
            IF steps = 1 THEN range[1]
            ELSE range[1] + ((i - 1) * (range[2] - range[1])) \div (steps - 1)])

\* line 368: the default of +-20% around the dose of the moment
DoseRange(dose_range, t) ==
    IF dose_range = "None"
    THEN <<(t.dose_mJ_cm2 * 8) \div 10, (t.dose_mJ_cm2 * 12) \div 10>>
    ELSE dose_range

\* line 369, tenths of nm
FocusRange(focus_range) ==
    IF focus_range = "None" THEN <<-400, 400>> ELSE focus_range

\* lines 375-378: one line of int(target_cd / nm_per_pixel) cells starting at
\* the middle column, on the model's SweepH x SweepW grid
SweepTarget(target_cd) ==
    LET line_width == TruncDiv(target_cd, NmPerPixelTenths)
    IN  Grid(SweepH, SweepW,
             LAMBDA y, x : IF SweepW \div 2 < x /\ x <= SweepW \div 2 + line_width
                           THEN 1 ELSE 0)

\* lines 391-392: the focus-adjusted blur width, hundredths of a cell
FocusSigma(focus) == PsfSigma + (PsfSigma * Abs(focus)) \div 1000

\* line 388
SubstituteDose(t, dose) == [t EXCEPT !.dose_mJ_cm2 = dose]

\* line 406 left out: the substituted dose stays
RestoreDoseSkipped(t, original_dose) == t

\* line 406
RestoreDose(t, original_dose) == [t EXCEPT !.dose_mJ_cm2 = original_dose]

\* the default development_time_s of run_full_simulation
DefaultDevelopmentTime == 30

\* line 388 with the focus value written where the dose belongs
SweepPointFocusAsDose(t, res, m, r, target_pattern, target_cd, dose, focus) ==
    LET original_dose == t.dose_mJ_cm2
        run           == RunFullSimulation(SubstituteDose(t, focus), res, m, r,
                                           target_pattern, target_cd,
                                           DefaultDevelopmentTime)
    IN  [tool |-> RestoreDose(run.tool, original_dose),
         rng |-> run.rng,
         metrics |-> run.metrics,
         cd_error |-> run.metrics.cd_error_nm,
         ler |-> run.metrics.ler_nm,
         original_dose |-> original_dose,
         focus_sigma |-> FocusSigma(focus)]

\* lines 386-406: one sweep point on an instance in state (t, res, m, r).
\* The run takes the target pattern and the dose; focus_sigma is computed
\* and not passed on.
SweepPoint(t, res, m, r, target_pattern, target_cd, dose, focus) ==
    LET original_dose == t.dose_mJ_cm2
        focus_sigma   == FocusSigma(focus)
        run           == RunFullSimulation(SubstituteDose(t, dose), res, m, r,
                                           target_pattern, target_cd,
                                           DefaultDevelopmentTime)
    IN  [tool |-> RestoreDose(run.tool, original_dose),
         rng |-> run.rng,
         metrics |-> run.metrics,
         cd_error |-> run.metrics.cd_error_nm,
         ler |-> run.metrics.ler_nm,
         original_dose |-> original_dose,
         focus_sigma |-> focus_sigma]

\* lines 409-411, one entry
InWindow(cd_error, ler, target_cd) ==
    FLt(FAbs(cd_error), target_cd * 10) /\ FLt(ler, 1500)

\* lines 409-423: the returned record; window_area in thousandths
ProcessWindowResult(w) ==
    LET process_window ==
            Grid(w.steps, w.steps,
                 LAMBDA i, j : InWindow(w.cd_errors[i][j], w.lers[i][j],
                                        w.target_cd_nm))
        inside == Cardinality({c \in (1..w.steps) \X (1..w.steps) :
                                  process_window[c[1]][c[2]]})
    IN  [dose_values |-> w.dose_values,
         focus_values |-> w.focus_values,
         cd_errors |-> w.cd_errors,
         lers |-> w.lers,
         process_window |-> process_window,
         window_area |-> (inside * 1000) \div (w.steps * w.steps),
         target_cd_nm |-> w.target_cd_nm]

-----------------------------------------------------------------------------
(* Inputs of the host program *)

\* Target patterns: a line, one exposed cell and no exposed cell on a one-row
\* grid, two lines on a three-row grid, and the single exposed cell of the
\* validation suite's 10 x 10 grid.
SinglePixel10 == [ConstMap(10, 10, 0) EXCEPT ![6][6] = 1]

TargetPatterns ==
    {<< <<0, 0, 1, 1>> >>,
     << <<0, 1, 0, 0>> >>,
     << <<0, 0, 0, 0>> >>,
     << <<1, 0, 1, 0>>, <<1, 0, 1, 0>>, <<1, 0, 1, 0>> >>,
     SinglePixel10}

\* target CDs, tenths of nm
TargetCds == {10}

\* development times, seconds
DevelopmentTimes == {20, 30}

\* doses a host assigns to tool['dose_mJ_cm2'], tenths of mJ/cm2
Doses == {250, 300}

\* seeds a host passes to random.seed
Seeds == {1, 2}

\* the seed the operating system's entropy gives a generator nobody seeded
EntropySeeds == {0}

\* areas passed to calculate_photon_statistics, quarters of a nm2
Areas == {-4, 0, 4}

\* electron maps passed to simulate_chemical_reactions
ElectronMaps == {<< <<0, 0, 0, 0>> >>, << <<2, 0, 1, 0>> >>}

\* rate maps passed to simulate_development, thousandths of nm/s
RateMaps == {<< <<2000, 202, 1500, 0>> >>, << <<2000, 202, 202, 0>> >>}

\* final patterns passed to calculate_stochastic_metrics
FinalPatterns ==
    {<< <<0, 1, 0, 1>> >>,
     << <<0, 0, 1, 1>> >>,
     << <<1, 1, 1, 1>> >>,
     << <<0, 1, 1, 1>>, <<1, 1, 0, 1>>, <<0, 1, 1, 1>> >>}

\* sweeps: dose_range (tenths of mJ/cm2), focus_range (tenths of nm), steps
DoseRanges == {"None", <<240, 300>>}
FocusRanges == {"None", <<0, 1000>>}
StepCounts == {1, 2}

-----------------------------------------------------------------------------
(* The instance and its calls *)

\* The state after EUVExposureModel() or EUVExposureModel(None, r) in a
\* process whose generator the host has seeded, or has not.

NoCall == [op |-> "none"]

Init ==
    /\ tool = DefaultTool
    /\ resist \in ResistConfigs
    /\ metrics = InitialMetrics
    /\ rng \in {[seed |-> e, n |-> 0, explicit |-> FALSE] : e \in EntropySeeds}
                \cup {Seeded(s) : s \in Seeds}
    /\ pc = "idle"
    /\ sw = NoCall
    /\ ret = NoCall
    /\ prev = NoCall
    /\ ops = 0

CanCall == pc = "idle" /\ ops < MaxOps

\* random.seed(s) by the host
Seed(s) ==
    /\ CanCall
    /\ rng' = Seeded(s)
    /\ ops' = ops + 1
    /\ UNCHANGED <<tool, resist, metrics, pc, sw, ret, prev>>

\* model.tool['dose_mJ_cm2'] = d by the host
SetDose(d) ==
    /\ CanCall
    /\ tool' = [tool EXCEPT !.dose_mJ_cm2 = d]
    /\ ops' = ops + 1
    /\ UNCHANGED <<resist, metrics, rng, pc, sw, ret, prev>>

CallPhotonStatistics(areaQ) ==
    /\ CanCall
    /\ \E stats \in {PhotonStats(tool.dose_mJ_cm2, areaQ)} :
           /\ tool' = RefreshCache(tool, stats.photons_per_nm2)
           /\ ret' = [op |-> "photon_statistics", area |-> areaQ,
                      dose |-> tool.dose_mJ_cm2, outcome |-> "returned",
                      out |-> stats]
    /\ prev' = ret
    /\ ops' = ops + 1
    /\ UNCHANGED <<resist, metrics, rng, pc, sw>>

CallRunFullSimulation(target_pattern, target_cd, development_time) ==
    /\ CanCall
    /\ \E run \in {RunFullSimulation(tool, resist, metrics, rng,
                                     target_pattern, target_cd, development_time)} :
           /\ tool' = run.tool
           /\ rng' = run.rng
           /\ metrics' = run.metrics
           /\ ret' = [op |-> "run", target_pattern |-> target_pattern,
                      target_cd |-> target_cd,
                      development_time |-> development_time,
                      dose |-> tool.dose_mJ_cm2,
                      generator |-> rng,
                      outcome |-> "returned",
                      out |-> run.result,
                      metrics_at_return |-> run.metrics]
    /\ prev' = ret
    /\ ops' = ops + 1
    /\ UNCHANGED <<resist, pc, sw>>

CallSimulateChemicalReactions(electron_map) ==
    /\ CanCall
    /\ ret' = [op |-> "chemical_reactions", electron_map |-> electron_map,
               outcome |-> "returned",
               out |-> SimulateChemicalReactions(electron_map, resist)]
    /\ prev' = ret
    /\ ops' = ops + 1
    /\ UNCHANGED <<tool, resist, metrics, rng, pc, sw>>

CallSimulateDevelopment(rate_map, development_time) ==
    /\ CanCall
    /\ ret' = [op |-> "development", rate_map |-> rate_map,
               development_time |-> development_time,
               outcome |-> "returned",
               out |-> SimulateDevelopment(rate_map, development_time)]
    /\ prev' = ret
    /\ ops' = ops + 1
    /\ UNCHANGED <<tool, resist, metrics, rng, pc, sw>>

CallCalculateStochasticMetrics(pattern_map, target_cd) ==
    /\ CanCall
    /\ ret' = [op |-> "stochastic_metrics", pattern_map |-> pattern_map,
               target_cd |-> target_cd,
               outcome |-> "returned",
               out |-> CalculateStochasticMetrics(pattern_map, target_cd)]
    /\ prev' = ret
    /\ ops' = ops + 1
    /\ UNCHANGED <<tool, resist, metrics, rng, pc, sw>>

\* calculate_process_window up to its loop, lines 368-381
BeginProcessWindow(target_cd, dose_range, focus_range, steps) ==
    /\ CanCall
    /\ pc' = "sweep"
    /\ sw' = [op |-> "process_window",
              target_cd_nm |-> target_cd,
              steps |-> steps,
              dose_values |-> Linspace(DoseRange(dose_range, tool), steps),
              focus_values |-> Linspace(FocusRange(focus_range), steps),
              target_pattern |-> SweepTarget(target_cd),
              cd_errors |-> ConstMap(steps, steps, 0),
              lers |-> ConstMap(steps, steps, 0),
              done |-> 0,
              dose_at_call |-> tool.dose_mJ_cm2]
    /\ ops' = ops + 1
    /\ UNCHANGED <<tool, resist, metrics, rng, ret, prev>>

\* the indices (i, j) of the next sweep point, from 1
SweepI == (sw.done \div sw.steps) + 1
SweepJ == (sw.done % sw.steps) + 1

\* one pass of the loop body, lines 386-406
StepProcessWindow ==
    /\ pc = "sweep"
    /\ sw.done < sw.steps * sw.steps
    /\ \E point \in {SweepPoint(tool, resist, metrics, rng, sw.target_pattern,
                                 sw.target_cd_nm, sw.dose_values[SweepI],
                                 sw.focus_values[SweepJ])} :
           /\ tool' = point.tool
           /\ rng' = point.rng
           /\ metrics' = point.metrics
           /\ sw' = [sw EXCEPT !.cd_errors[SweepI][SweepJ] = point.cd_error,
                               !.lers[SweepI][SweepJ] = point.ler,
                               !.done = @ + 1]
    /\ UNCHANGED <<resist, pc, ret, prev, ops>>

\* lines 409-423
ReturnProcessWindow ==
    /\ pc = "sweep"
    /\ sw.done = sw.steps * sw.steps
    /\ pc' = "idle"
    /\ ret' = [op |-> "process_window", outcome |-> "returned",
               dose_at_call |-> sw.dose_at_call,
               dose_at_return |-> tool.dose_mJ_cm2,
               out |-> ProcessWindowResult(sw)]
    /\ prev' = ret
    /\ sw' = NoCall
    /\ UNCHANGED <<tool, resist, metrics, rng, ops>>

Next ==
    \/ \E s \in Seeds : Seed(s)
    \/ \E d \in Doses : SetDose(d)
    \/ \E a \in Areas : CallPhotonStatistics(a)
    \/ \E p \in TargetPatterns, cd \in TargetCds, t \in DevelopmentTimes :
          CallRunFullSimulation(p, cd, t)
    \/ \E e \in ElectronMaps : CallSimulateChemicalReactions(e)
    \/ \E m \in RateMaps, t \in DevelopmentTimes : CallSimulateDevelopment(m, t)
    \/ \E p \in FinalPatterns, cd \in TargetCds :
          CallCalculateStochasticMetrics(p, cd)
    \/ \E cd \in TargetCds, d \in DoseRanges, f \in FocusRanges, n \in StepCounts :
          BeginProcessWindow(cd, d, f, n)
    \/ StepProcessWindow
    \/ ReturnProcessWindow

Spec == Init /\ [][Next]_vars

-----------------------------------------------------------------------------
(* Properties *)

TypeOK ==
    /\ tool.dose_mJ_cm2 \in Int
    /\ tool.photons_per_nm2 \in Int
    /\ resist \in ResistConfigs
    /\ rng.n \in 0..(Period - 1)
    /\ pc \in {"idle", "sweep"}
    /\ ops \in 0..MaxOps

\* the exposed cells of a target pattern
Exposed(target_pattern) == Count(target_pattern, 1)

\* C1: calculate_process_window substitutes the sweep dose only for the run
\* of a sweep point: between sweep points and when the call returns,
\* tool['dose_mJ_cm2'] is what it was when the call was made.
C1_DoseRestored ==
    /\ pc = "sweep" => tool.dose_mJ_cm2 = sw.dose_at_call
    /\ ret.op = "process_window" => ret.dose_at_return = ret.dose_at_call

\* A sweep point has run at a dose other than the configured one (the run
\* recorded it as the effective dose) and the configured dose is back.
C1_Witness ==
    /\ pc = "sweep"
    /\ sw.done >= 1
    /\ metrics.effective_dose_mJ_cm2 # sw.dose_at_call
    /\ tool.dose_mJ_cm2 = sw.dose_at_call

\* C2: simulate_chemical_reactions with a chemistry kind other than 'CAR' or
\* 'MeOx' ends in a configuration error and returns no acid map.
C2_UnknownChemistryFails ==
    (ret.op = "chemical_reactions" /\ resist.type \notin {"CAR", "MeOx"})
        => ret.outcome = "ConfigurationError"

\* C3: with fewer than two low-to-high edges, calculate_stochastic_metrics
\* reports LER 0 and a CD error that is neither the NaN of a mean over no
\* spacings nor an ordinary number.
C3_InsufficientFeatureState ==
    (ret.op = "stochastic_metrics" /\ Len(EdgePositions(ret.pattern_map)) < 2)
        => /\ ret.out.ler_nm = 0
           /\ ~IsNaN(ret.out.cd_error_nm)
           /\ ~IsNumber(ret.out.cd_error_nm)

\* two run records with the same configuration, the same inputs and a
\* generator the host seeded with the same seed
SameSeededRun(a, b) ==
    /\ a.op = "run" /\ b.op = "run"
    /\ a.target_pattern = b.target_pattern
    /\ a.target_cd = b.target_cd
    /\ a.development_time = b.development_time
    /\ a.dose = b.dose
    /\ a.generator.explicit /\ b.generator.explicit
    /\ a.generator.seed = b.generator.seed

\* C4: two runs with the same configuration, target pattern and seeded
\* generator give identical output grids and metrics.
C4_SeededRunsIdentical ==
    SameSeededRun(prev, ret)
        => /\ prev.out.electron_map = ret.out.electron_map
           /\ prev.out.acid_map = ret.out.acid_map
           /\ prev.out.diffused_acid = ret.out.diffused_acid
           /\ prev.out.rate_map = ret.out.rate_map
           /\ prev.out.final_pattern = ret.out.final_pattern
           /\ prev.metrics_at_return = ret.metrics_at_return

\* focus values a sweep point could have been given, tenths of nm
OtherFocusValues == {-400, 0, 250, 1000}

LongerDevelopment(a, b) ==
    /\ a.op = "development" /\ b.op = "development"
    /\ a.rate_map = b.rate_map
    /\ a.development_time < b.development_time

Cells(m) == (1..Height(m)) \X (1..Width(m))

\* C6 as the code has it: on a rate map without negative rates, a cell
\* removed after the shorter time is removed after the longer time, so the
\* removed area never shrinks (it need not grow).
C6_RemovedAreaMonotone ==
    (/\ LongerDevelopment(prev, ret)
     /\ \A c \in Cells(ret.rate_map) : ret.rate_map[c[1]][c[2]] >= 0)
        => /\ \A c \in Cells(ret.out) :
                 prev.out[c[1]][c[2]] = 0 => ret.out[c[1]][c[2]] = 0
           /\ Count(ret.out, 0) >= Count(prev.out, 0)

\* C6 as claimed: the longer time removes strictly more cells, unless
\* everything was removed already.
C6_RemovedAreaGrows ==
    LongerDevelopment(prev, ret)
        => IF Count(prev.out, 0) = Size(prev.out)
           THEN Count(ret.out, 0) = Size(ret.out)
           ELSE Count(ret.out, 0) > Count(prev.out, 0)

\* the longer development has removed a cell the shorter one left
C6_Witness ==
    /\ LongerDevelopment(prev, ret)
    /\ Count(ret.out, 0) > Count(prev.out, 0)

\* C7: a run on a target pattern with a single exposed cell and the default
\* yield 3.2 deposits a total strictly between 3.0 and 3.4.
C7_SingleCellYield ==
    (/\ ret.op = "run"
     /\ Exposed(ret.target_pattern) = 1
     /\ resist.secondary_electron_yield = 320)
        => /\ 30 < 10 * SumMap(ret.out.electron_map)
           /\ 10 * SumMap(ret.out.electron_map) < 34

\* C8: at dose 30 mJ/cm2 calculate_photon_statistics returns a
\* photons-per-area within 2% of 24.5 per nm2.
C8_PhotonsPerAreaAt30 ==
    (ret.op = "photon_statistics" /\ ret.dose = 300)
        => Abs(ret.out.photons_per_nm2 - 24500) * 100 < 2 * 24500

\* the photon statistics a call returned: calculate_photon_statistics itself,
\* or run_full_simulation, which passes the exposed area on
StatsOfZeroArea(r) ==
    \/ r.op = "photon_statistics" /\ r.area <= 0
    \/ r.op = "run" /\ TargetArea(r.target_pattern) = 0

StatsOf(r) == IF r.op = "run" THEN r.out.photon_stats ELSE r.out

\* C9: for an area <= 0 the statistics report 0 total photons, 0 shot noise
\* and a relative shot noise that is neither the NaN of a division by the
\* zero count nor an ordinary number.
C9_ZeroAreaStatistics ==
    StatsOfZeroArea(ret)
        => /\ StatsOf(ret).total_photons = 0
           /\ StatsOf(ret).shot_noise = 0
           /\ ~IsNaN(StatsOf(ret).relative_shot_noise)
           /\ ~IsNumber(StatsOf(ret).relative_shot_noise)

\* C10: the cached tool['photons_per_nm2'] is the value derived from the
\* current tool['dose_mJ_cm2'] in every state.
C10_CacheFollowsDose ==
    tool.photons_per_nm2 = PhotonsPerNm2(tool.dose_mJ_cm2)

\* a displacement in thousandths of a cell, rounded to the nearest cell
RoundNearest(v) ==
    IF v >= 0 THEN (v + 500) \div 1000 ELSE -((500 - v) \div 1000)

\* where the e-th electron of a cascade lands if its two draws are rounded
\* to the nearest cell
NearestLanding(photon_map, upto, e, sigma, r) ==
    LET idx == SourceCell(upto, e)
        x   == ((idx - 1) % Width(photon_map)) + 1
        y   == ((idx - 1) \div Width(photon_map)) + 1
        dx  == RoundNearest(Gauss(AdvanceBy(r, 2 * e - 2), sigma))
        dy  == RoundNearest(Gauss(AdvanceBy(r, 2 * e - 1), sigma))
    IN  <<x + dx, y + dy>>

\* C11: the cascade of a run emits floor(p * yield) electrons from every
\* cell with photon value p > 0, moves each by its two draws rounded to the
\* nearest cell, and deposits one unit where it lands inside the grid: the
\* electron map counts those landings, and its total is the emitted count
\* less the electrons that landed outside.
C11_NearestCellDeposits ==
    ret.op = "run"
        => LET photon_map == ret.out.photon_map
               h        == Height(photon_map)
               w        == Width(photon_map)
               emitted  == Arr([idx \in 1..(h * w) |->
                               LET p == photon_map[((idx - 1) \div w) + 1]
                                                  [((idx - 1) % w) + 1]
                               IN  IF p > 0
                                   THEN (p * resist.secondary_electron_yield)
                                            \div 100000
                                   ELSE 0])
               total    == SumSeq(emitted)
               upto     == RunningTotal(emitted)
               landings == Arr([e \in 1..total |->
                               NearestLanding(photon_map, upto, e,
                                              ScatterSigma(resist),
                                              ret.generator)])
               outside  == Cardinality({e \in 1..total :
                               ~(/\ landings[e][1] \in 1..w
                                 /\ landings[e][2] \in 1..h)})
           IN  /\ \A y \in 1..h : \A x \in 1..w :
                     ret.out.electron_map[y][x]
                        = Cardinality({e \in 1..total : landings[e] = <<x, y>>})
               /\ SumMap(ret.out.electron_map) = total - outside

\* the metrics of a run that its record is read for
RunMetricKeys ==
    {"ler_nm", "cd_error_nm", "stochastic_defects_per_um2",
     "effective_dose_mJ_cm2"}

\* C12: the metrics read from the record of an earlier run_full_simulation
\* call are those the call returned, whatever calls were made on the
\* instance since.
C12_ReturnedMetricsKept ==
    \A rec \in {prev, ret} :
        rec.op = "run"
            => \A k \in RunMetricKeys :
                  ReadMetrics(rec.out, metrics)[k] = rec.metrics_at_return[k]

=============================================================================
